---- MODULE Spec2Model ----
(***************************************************************************)
(* Model of the master-server query client of msq-rs (src/client.rs,       *)
(* src/packet_ext.rs, src/region.rs): MSQClient::query_raw,                *)
(* MSQClient::send and MSQClient::recv, with the packet readers and        *)
(* writers they use and the region code conversions.  One client on one    *)
(* connected UDP socket runs queries one after the other; the directory    *)
(* host, the transport and the consumer of the result channel are the      *)
(* environment.                                                            *)
(***************************************************************************)
EXTENDS Integers, Sequences, FiniteSets, TLC

\* ---------------------------------------------------------------- bounds
MaxSessions == 2
MaxPages == 2
MaxText == 2
MaxBuf == 3

\* ------------------------------------------------------ program constants
BufSize == 2048

Header == <<255, 255, 255, 255, 102, 10>>

EMPTY_ADRESS == [a |-> 0, b |-> 0, c |-> 0, d |-> 0]

\* Address::default() and the initial last_port of recv
DefaultAddress == [a |-> 0, b |-> 0, c |-> 0, d |-> 0]

\* ------------------------------------------------------ packet readers
Min(x, y) == IF x <= y THEN x ELSE y

\* Cursor::read_u8 on buf at position pos
read_u8(b, p) ==
    IF p < Len(b)
    THEN [ok |-> TRUE, val |-> b[p + 1], pos |-> p + 1]
    ELSE [ok |-> FALSE, val |-> 0, pos |-> p]

\* Cursor::read_u16::<BigEndian>: read_exact of two bytes
read_u16_LittleEndian(b, p) ==
    IF Len(b) - p >= 2
    THEN [ok |-> TRUE, val |-> b[p + 2] * 256 + b[p + 1], pos |-> p + 2]
    ELSE [ok |-> FALSE, val |-> 0, pos |-> p]

read_u16(b, p) ==
    IF Len(b) - p >= 2
    THEN [ok |-> TRUE, val |-> b[p + 1] * 256 + b[p + 2], pos |-> p + 2]
    ELSE [ok |-> FALSE, val |-> 0, pos |-> p]

\* read_u8_veccheck: one read_u8 per byte of cmp; a failed read is an
\* error ("eof"), the first differing byte returns Ok(false) at once.
RECURSIVE VecCheckFrom(_, _, _, _)
VecCheckFrom(b, p, cmp, i) ==
    IF i > Len(cmp) THEN [res |-> "true", pos |-> p]
    ELSE LET r == read_u8(b, p) IN
         IF ~r.ok THEN [res |-> "eof", pos |-> r.pos]
         ELSE IF cmp[i] # r.val THEN [res |-> "false", pos |-> r.pos]
         ELSE VecCheckFrom(b, r.pos, cmp, i + 1)

read_u8_veccheck_First4(b, p, cmp) == VecCheckFrom(b, p, SubSeq(cmp, 1, 4), 1)

read_u8_veccheck_ConsumeAll(b, p, cmp) ==
    IF Len(b) - p < Len(cmp) THEN [res |-> "eof", pos |-> Len(b)]
    ELSE [res |-> IF SubSeq(b, p + 1, p + Len(cmp)) = cmp THEN "true" ELSE "false",
          pos |-> p + Len(cmp)]

read_u8_veccheck(b, p, cmp) == VecCheckFrom(b, p, cmp, 1)

\* One turn of the `while let Ok(a) = cursor.read_u8()` loop up to the
\* point where the entry is handed to the sender:
\*   "end"   the read of a failed: the loop ends without error
\*   "eof"   the read of b, c, d or of the port failed: `?` returns the error
\*   "eol"   the address is EMPTY_ADRESS: end_of_list, break
\*   "entry" an address and a port were read
NoEntry(kind, p) ==
    [kind |-> kind, address |-> EMPTY_ADRESS, port |-> 0, pos |-> p]

DecodeEntry_NoTerminatorCheck(b, p) ==
    LET ra == read_u8(b, p)
        rb == read_u8(b, ra.pos)
        rc == read_u8(b, rb.pos)
        rd == read_u8(b, rc.pos)
        addr == [a |-> ra.val, b |-> rb.val, c |-> rc.val, d |-> rd.val]
        rp == read_u16(b, rd.pos)
    IN  IF ~ra.ok THEN NoEntry("end", ra.pos)
        ELSE IF ~rb.ok \/ ~rc.ok \/ ~rd.ok THEN NoEntry("eof", rd.pos)
        ELSE IF ~rp.ok THEN NoEntry("eof", rp.pos)
        ELSE [kind |-> "entry", address |-> addr, port |-> rp.val, pos |-> rp.pos]

DecodeEntry_ShortIsEnd(b, p) ==
    LET ra == read_u8(b, p)
        rb == read_u8(b, ra.pos)
        rc == read_u8(b, rb.pos)
        rd == read_u8(b, rc.pos)
        addr == [a |-> ra.val, b |-> rb.val, c |-> rc.val, d |-> rd.val]
        rp == read_u16(b, rd.pos)
    IN  IF ~ra.ok THEN NoEntry("end", ra.pos)
        ELSE IF ~rb.ok \/ ~rc.ok \/ ~rd.ok THEN NoEntry("end", rd.pos)
        ELSE IF addr = EMPTY_ADRESS THEN NoEntry("eol", rd.pos)
        ELSE IF ~rp.ok THEN NoEntry("end", rp.pos)
        ELSE [kind |-> "entry", address |-> addr, port |-> rp.val, pos |-> rp.pos]

DecodeEntry(b, p) ==
    LET ra == read_u8(b, p)
        rb == read_u8(b, ra.pos)
        rc == read_u8(b, rb.pos)
        rd == read_u8(b, rc.pos)
        addr == [a |-> ra.val, b |-> rb.val, c |-> rc.val, d |-> rd.val]
        rp == read_u16(b, rd.pos)
    IN  IF ~ra.ok THEN NoEntry("end", ra.pos)
        ELSE IF ~rb.ok \/ ~rc.ok \/ ~rd.ok THEN NoEntry("eof", rd.pos)
        ELSE IF addr = EMPTY_ADRESS THEN NoEntry("eol", rd.pos)
        ELSE IF ~rp.ok THEN NoEntry("eof", rp.pos)
        ELSE [kind |-> "entry", address |-> addr, port |-> rp.val, pos |-> rp.pos]

\* ------------------------------------------- packet_ext.rs: write_cstring
\* Cursor<Vec<u8>>: the vector and the position
NewCursor(v, p) == [vec |-> v, pos |-> p]

\* Cursor::write_u8: overwrite at the position or push at the end
\* (the cursor is bound once, so that a chain of writes is evaluated once)
write_u8(cur, x) ==
    CHOOSE r \in
        { [vec |-> IF c.pos < Len(c.vec)
                   THEN [c.vec EXCEPT ![c.pos + 1] = x]
                   ELSE c.vec \o <<x>>,
           pos |-> c.pos + 1] : c \in {cur} } : TRUE

\* char::encode_utf8
encode_utf8(ch) ==
    IF ch < 128 THEN <<ch>>
    ELSE IF ch < 2048 THEN <<192 + (ch \div 64), 128 + (ch % 64)>>
    ELSE IF ch < 65536 THEN
        <<224 + (ch \div 4096), 128 + ((ch \div 64) % 64), 128 + (ch % 64)>>
    ELSE <<240 + (ch \div 262144), 128 + ((ch \div 4096) % 64),
           128 + ((ch \div 64) % 64), 128 + (ch % 64)>>

\* for code in codes.as_bytes() { self.write_u8(*code)?; }
RECURSIVE WriteCodes(_, _)
WriteCodes(cur, codes) ==
    IF codes = <<>> THEN cur
    ELSE WriteCodes(write_u8(cur, Head(codes)), Tail(codes))

\* for ch in src.chars() { .. }
RECURSIVE WriteChars(_, _)
WriteChars(cur, src) ==
    IF src = <<>> THEN cur
    ELSE WriteChars(WriteCodes(cur, encode_utf8(Head(src))), Tail(src))

RECURSIVE WriteCharsAsU8(_, _)
WriteCharsAsU8(cur, src) ==
    IF src = <<>> THEN cur
    ELSE WriteCharsAsU8(write_u8(cur, Head(src) % 256), Tail(src))

write_cstring_AsU8(cur, src) == write_u8(WriteCharsAsU8(cur, src), 0)

write_cstring(cur, src) == write_u8(WriteChars(cur, src), 0)

\* format!("{}", n) of an unsigned number: its decimal digits
RECURSIVE Decimal(_)
Decimal(n) ==
    IF n < 10 THEN <<48 + n>>
    ELSE Decimal(n \div 10) \o <<48 + (n % 10)>>

\* format!("{}.{}.{}.{}:{}", address.a, address.b, address.c, address.d, port)
AddrText(addr, prt) ==
    Decimal(addr.a) \o <<46>> \o Decimal(addr.b) \o <<46>> \o Decimal(addr.c)
        \o <<46>> \o Decimal(addr.d) \o <<58>> \o Decimal(prt)

\* the bytes MSQClient::send writes into its cursor
Packet_FilterFirst(region, filter, addr, prt) ==
    LET c1 == write_u8(NewCursor(<<>>, 0), 49)
        c2 == write_u8(c1, region)
        c3 == write_cstring(c2, filter)
        c4 == write_cstring(c3, AddrText(addr, prt))
    IN  c4.vec

Packet(region, filter, addr, prt) ==
    LET c1 == write_u8(NewCursor(<<>>, 0), 49)
        c2 == write_u8(c1, region)
        c3 == write_cstring(c2, AddrText(addr, prt))
        c4 == write_cstring(c3, filter)
    IN  c4.vec

\* The request handed to sock.send by MSQClient::send: its arguments and
\* the bytes of the packet
Request(region, filter, addr, prt) ==
    [region |-> region, address |-> addr, port |-> prt, filter |-> filter,
     bytes |-> Packet(region, filter, addr, prt)]


\* ------------------------------------------------------------- inputs
\* Arguments of query_raw: a region byte and a filter text (code points)
QueryArgs ==
    { [region |-> 3,   filter |-> <<92, 97>>],
      [region |-> 255, filter |-> <<>>] }

\* Wire entries: 1.2.3.4:26 and 0.0.0.1:256
E1 == <<1, 2, 3, 4, 0, 26>>
E2 == <<0, 0, 0, 1, 1, 0>>
Terminator == <<0, 0, 0, 0, 0, 0>>

\* pages of whole entries: empty, one entry, a repeated entry, two entries
EntrySeqs == {<<>>, E1, E2, E1 \o E1, E1 \o E2}

\* header, whole entries, then nothing or the terminator entry
WellFormedDatagrams ==
    {Header \o es \o t : es \in EntrySeqs, t \in {<<>>, Terminator}}

\* what may follow the last whole entry instead: 1 to 5 left-over bytes,
\* a terminator address without its port, a terminator with a port and an
\* entry behind it
Tails ==
    { <<7>>, <<7, 7>>, <<7, 7, 7>>, <<7, 7, 7, 7>>, <<7, 7, 7, 7, 7>>,
      <<0>>, <<0, 0>>, <<0, 0, 0>>, <<0, 0, 0, 0>>, <<0, 0, 0, 0, 0>>,
      <<0, 0, 0, 0, 0, 26>> \o E1 }

TailedDatagrams == {Header \o es \o t : es \in {<<>>, E1}, t \in Tails}

\* the header with one byte replaced
BadHeaders ==
    {[Header EXCEPT ![i] = v] : i \in 1..6, v \in {0, 255, 10}} \ {Header}

BadHeaderDatagrams == {h \o E1 \o Terminator : h \in BadHeaders}

\* fewer than six bytes
ShortDatagrams ==
    {SubSeq(Header, 1, n) : n \in 0..5} \cup {<<255, 0>>}

\* longer than the receive buffer
Oversize(prefix) == prefix \o [i \in 1..(BufSize + 1 - Len(prefix)) |-> 0]

OversizeDatagrams == {Oversize(Header \o Terminator), Oversize(Header \o E1)}

Datagrams ==
    WellFormedDatagrams \cup TailedDatagrams \cup BadHeaderDatagrams
        \cup ShortDatagrams \cup OversizeDatagrams

\* -------------------------------------------------------------- state
VARIABLES
    pc,               \* where the client is: "idle" (no query running),
                      \* "first_send", "recv", "decode", "deliver", "sleep",
                      \* "send", "panicked"
    result,           \* what the last query_raw returned: "none" while it
                      \* runs, "ok", "transport", "mismatch", "eof", "panic"
    region_code,      \* arguments of query_raw
    filter_str,
    buf,              \* recv: buf[..len], the bytes under the cursor
    pos,              \* recv: cursor position
    address,          \* recv: the entry handed to the sender
    port,
    last_address,     \* recv: continuation cursor
    last_port,
    end_of_list,
    sent,             \* requests sock.send accepted in this query
    rcvd,             \* datagrams sock.recv returned in this query
    inflight,         \* requests sent on the socket and not yet answered
    transport_failed, \* some sock.send or sock.recv of this client failed
    sink,             \* pairs the sender accepted in this query
    rxOpen,           \* the receiver half of the channel is alive
    nsessions,        \* calls of query_raw so far
    fn,               \* a packet or region function evaluated on its own:
    arg,              \* its name ("none" while the client is modelled),
    ret               \* its argument and what it returned

unit == <<fn, arg, ret>>

vars ==
    <<pc, result, region_code, filter_str, buf, pos, address, port,
      last_address, last_port, end_of_list, sent, rcvd, inflight,
      transport_failed, sink, rxOpen, nsessions, unit>>

frame == <<buf, pos, address, port, last_address, last_port, end_of_list>>
args == <<region_code, filter_str>>
channel == <<sink, rxOpen>>

ClientInit ==
    /\ pc = "idle"
    /\ result = "none"
    /\ region_code = 0
    /\ filter_str = <<>>
    /\ buf = <<>>
    /\ pos = 0
    /\ address = EMPTY_ADRESS
    /\ port = 0
    /\ last_address = EMPTY_ADRESS
    /\ last_port = 0
    /\ end_of_list = FALSE
    /\ sent = <<>>
    /\ rcvd = <<>>
    /\ inflight = 0
    /\ transport_failed = FALSE
    /\ sink = <<>>
    /\ rxOpen = TRUE
    /\ nsessions = 0

Init ==
    /\ ClientInit
    /\ fn = "none"
    /\ arg = <<>>
    /\ ret = <<>>

\* ------------------------------------------------------------- actions
\* The caller invokes query_raw with a fresh channel.
QueryRaw(region, filter) ==
    /\ pc = "idle"
    /\ nsessions < MaxSessions
    /\ nsessions' = nsessions + 1
    /\ pc' = "first_send"
    /\ result' = "none"
    /\ region_code' = region
    /\ filter_str' = filter
    /\ buf' = <<>>
    /\ pos' = 0
    /\ address' = EMPTY_ADRESS
    /\ port' = 0
    /\ last_address' = EMPTY_ADRESS
    /\ last_port' = 0
    /\ end_of_list' = FALSE
    /\ sent' = <<>>
    /\ rcvd' = <<>>
    /\ sink' = <<>>
    /\ rxOpen' = TRUE
    /\ UNCHANGED <<inflight, transport_failed, unit>>

\* MSQClient::send, sock.send succeeded
send(addr, prt) ==
    /\ sent' = Append(sent, Request(region_code, filter_str, addr, prt))
    /\ inflight' = inflight + 1

\* query_raw: the first packet, then the locals of recv
SendFirstOk ==
    /\ pc = "first_send"
    /\ send(EMPTY_ADRESS, 0)
    /\ buf' = <<>>
    /\ last_address' = DefaultAddress
    /\ last_port' = 0
    /\ end_of_list' = FALSE
    /\ pc' = "recv"
    /\ UNCHANGED <<result, args, pos, address, port, rcvd, transport_failed,
                   channel, nsessions, unit>>

\* a failed sock.send or sock.recv: `?` returns the error from query_raw
TransportError_Retry ==
    /\ transport_failed' = TRUE
    /\ UNCHANGED <<pc, result, args, frame, sent, rcvd, inflight, channel,
                   nsessions, unit>>

TransportError ==
    /\ pc' = "idle"
    /\ result' = "transport"
    /\ transport_failed' = TRUE
    /\ UNCHANGED <<args, frame, sent, rcvd, inflight, channel, nsessions, unit>>

SendFail ==
    /\ pc \in {"first_send", "send"}
    /\ TransportError

RecvFail ==
    /\ pc = "recv"
    /\ TransportError

\* sock.recv returned a datagram: at most BufSize bytes of it reach buf (the
\* rest of a longer datagram is dropped by the socket; a platform that
\* reports an error for it instead is RecvFail); then the header check
Truncate(d) == SubSeq(d, 1, Min(Len(d), BufSize))

HeaderCheck_ShortIsMatch(b) ==
    IF Len(b) < Len(Header) /\ b = SubSeq(Header, 1, Len(b))
    THEN [res |-> "true", pos |-> Len(b)]
    ELSE read_u8_veccheck(b, 0, Header)

HeaderCheck(b) == read_u8_veccheck(b, 0, Header)

RecvOk(d) ==
    /\ pc = "recv"
    /\ Len(rcvd) < MaxPages
    /\ rcvd' = Append(rcvd, d)
    /\ inflight' = IF inflight > 0 THEN inflight - 1 ELSE 0
    /\ buf' = Truncate(d)
    /\ LET h == HeaderCheck(Truncate(d)) IN
         /\ pos' = h.pos
         /\ pc' = IF h.res = "true" THEN "decode" ELSE "idle"
         /\ result' = CASE h.res = "true" -> result
                        [] h.res = "false" -> "mismatch"
                        [] h.res = "eof" -> "eof"
    /\ UNCHANGED <<args, address, port, last_address, last_port, end_of_list,
                   sent, transport_failed, channel, nsessions, unit>>

Decode_NoBreak ==
    /\ pc = "decode"
    /\ LET e == DecodeEntry(buf, pos) IN
         /\ pos' = IF e.kind = "eol" THEN Min(e.pos + 2, Len(buf)) ELSE e.pos
         /\ address' = IF e.kind = "entry" THEN e.address ELSE address
         /\ port' = IF e.kind = "entry" THEN e.port ELSE port
         /\ end_of_list' = IF e.kind = "eol" THEN TRUE ELSE end_of_list
         /\ pc' = CASE e.kind = "entry" -> "deliver"
                    [] e.kind = "eol" -> "decode"
                    [] e.kind = "end" -> "sleep"
                    [] e.kind = "eof" -> "idle"
         /\ result' = IF e.kind = "eof" THEN "eof" ELSE result
    /\ UNCHANGED <<args, buf, last_address, last_port, sent, rcvd, inflight,
                   transport_failed, channel, nsessions, unit>>

\* one turn of the entry loop, up to sender.send
Decode ==
    /\ pc = "decode"
    /\ LET e == DecodeEntry(buf, pos) IN
         /\ pos' = e.pos
         /\ address' = IF e.kind = "entry" THEN e.address ELSE address
         /\ port' = IF e.kind = "entry" THEN e.port ELSE port
         /\ end_of_list' = IF e.kind = "eol" THEN TRUE ELSE end_of_list
         /\ pc' = CASE e.kind = "entry" -> "deliver"
                    [] e.kind \in {"eol", "end"} -> "sleep"
                    [] e.kind = "eof" -> "idle"
         /\ result' = IF e.kind = "eof" THEN "eof" ELSE result
    /\ UNCHANGED <<args, buf, last_address, last_port, sent, rcvd, inflight,
                   transport_failed, channel, nsessions, unit>>

\* sender.send(..).await returned Ok: the channel took the pair.  While the
\* channel is full the client stays at "deliver".
DeliverOk_KeepCursor ==
    /\ pc = "deliver"
    /\ rxOpen
    /\ sink' = Append(sink, <<address, port>>)
    /\ pc' = "decode"
    /\ UNCHANGED <<result, args, buf, pos, address, port, last_address,
                   last_port, end_of_list, sent, rcvd, inflight,
                   transport_failed, rxOpen, nsessions, unit>>

DeliverOk_TrySend ==
    /\ pc = "deliver"
    /\ rxOpen
    /\ \/ sink' = Append(sink, <<address, port>>)
       \/ sink' = sink
    /\ last_address' = address
    /\ last_port' = port
    /\ pc' = "decode"
    /\ UNCHANGED <<result, args, buf, pos, address, port, end_of_list, sent,
                   rcvd, inflight, transport_failed, rxOpen, nsessions, unit>>

DeliverOk ==
    /\ pc = "deliver"
    /\ rxOpen
    /\ sink' = Append(sink, <<address, port>>)
    /\ last_address' = address
    /\ last_port' = port
    /\ pc' = "decode"
    /\ UNCHANGED <<result, args, buf, pos, address, port, end_of_list, sent,
                   rcvd, inflight, transport_failed, rxOpen, nsessions, unit>>

\* sender.send(..).await returned Err: unwrap() panics
DeliverClosed ==
    /\ pc = "deliver"
    /\ ~rxOpen
    /\ pc' = "panicked"
    /\ result' = "panic"
    /\ UNCHANGED <<args, frame, sent, rcvd, inflight, transport_failed,
                   channel, nsessions, unit>>

\* sleep(Duration::from_secs(6))
Sleep ==
    /\ pc = "sleep"
    /\ pc' = "send"
    /\ UNCHANGED <<result, args, frame, sent, rcvd, inflight,
                   transport_failed, channel, nsessions, unit>>

SendNextOk_PageCap ==
    /\ pc = "send"
    /\ send(last_address, last_port)
    /\ pc' = IF end_of_list \/ Len(rcvd) >= MaxPages THEN "idle" ELSE "recv"
    /\ result' = IF end_of_list \/ Len(rcvd) >= MaxPages THEN "ok" ELSE result
    /\ UNCHANGED <<args, frame, rcvd, transport_failed, channel, nsessions,
                   unit>>

SendNextOk_NeverReturns ==
    /\ pc = "send"
    /\ send(last_address, last_port)
    /\ pc' = "recv"
    /\ UNCHANGED <<result, args, frame, rcvd, transport_failed, channel,
                   nsessions, unit>>

\* the send that ends each turn of `while !end_of_list`, then the loop test
SendNextOk ==
    /\ pc = "send"
    /\ send(last_address, last_port)
    /\ pc' = IF end_of_list THEN "idle" ELSE "recv"
    /\ result' = IF end_of_list THEN "ok" ELSE result
    /\ UNCHANGED <<args, frame, rcvd, transport_failed, channel, nsessions, unit>>

\* the consumer drops the receiver while the query runs
DropReceiver ==
    /\ pc \notin {"idle", "panicked"}
    /\ rxOpen
    /\ rxOpen' = FALSE
    /\ UNCHANGED <<pc, result, args, frame, sent, rcvd, inflight,
                   transport_failed, sink, nsessions, unit>>

Next ==
    \/ \E q \in QueryArgs : QueryRaw(q.region, q.filter)
    \/ SendFirstOk
    \/ SendFail
    \/ RecvFail
    \/ \E d \in Datagrams : RecvOk(d)
    \/ Decode
    \/ DeliverOk
    \/ DeliverClosed
    \/ Sleep
    \/ SendNextOk
    \/ DropReceiver

Spec == Init /\ [][Next]_vars


\* ------------------------------------------------- the wire format
\* What a datagram says, read off the wire format: after the six header
\* bytes, entries of four address bytes and a big-endian port, up to an
\* entry whose address is 0.0.0.0 or to the end of the bytes.
Last(s) == s[Len(s)]

IsPrefix(s, t) == Len(s) <= Len(t) /\ SubSeq(t, 1, Len(s)) = s

Body(d) == SubSeq(d, Len(Header) + 1, Len(d))

WirePair(b) ==
    <<[a |-> b[1], b |-> b[2], c |-> b[3], d |-> b[4]], b[5] * 256 + b[6]>>

RECURSIVE WirePairs(_)
WirePairs(b) ==
    IF Len(b) < 6 \/ SubSeq(b, 1, 4) = <<0, 0, 0, 0>> THEN <<>>
    ELSE <<WirePair(b)>> \o WirePairs(SubSeq(b, 7, Len(b)))

HasTerminator(b) ==
    \E k \in 0..(Len(b) \div 6) :
        /\ Len(b) >= 6 * k + 4
        /\ SubSeq(b, 6 * k + 1, 6 * k + 4) = <<0, 0, 0, 0>>
        /\ Len(WirePairs(b)) = k

RECURSIVE PairsOf(_)
PairsOf(ds) ==
    IF ds = <<>> THEN <<>>
    ELSE WirePairs(Body(Head(ds))) \o PairsOf(Tail(ds))

LastPairOr(ps, dflt) == IF ps = <<>> THEN dflt ELSE Last(ps)

ValidHeader(d) == Len(d) >= 6 /\ SubSeq(d, 1, 6) = Header

\* header, whole six-byte entries, the terminator (if any) as the last one
WellFormed(d) ==
    /\ ValidHeader(d)
    /\ Len(d) <= BufSize
    /\ (Len(d) - 6) % 6 = 0
    /\ 6 * Len(WirePairs(Body(d))) >= Len(d) - 12

Earlier(ds) == SubSeq(ds, 1, Len(ds) - 1)

\* ------------------------------------------------------------- claims

\* C1: no pair whose address is 0.0.0.0 is ever delivered to the sink.
C1_TerminatorNeverDelivered ==
    \A i \in 1..Len(sink) : sink[i][1] # EMPTY_ADRESS

\* a terminator was decoded behind an entry that was delivered
C1_Witness ==
    /\ end_of_list
    /\ sink # <<>>
    /\ Len(buf) >= pos + 2

\* C2: once a datagram with the terminator has been decoded no further
\* request is sent; a session whose first datagram holds the terminator
\* returns success after exactly one request.
C2_NoRequestAfterTerminator ==
    /\ end_of_list => Len(sent) = Len(rcvd)
    /\ (result = "ok" /\ Len(rcvd) = 1) => Len(sent) = 1

\* C3: request 1 carries the cursor 0.0.0.0:0, request i + 1 carries the
\* last entry of datagrams 1..i (the cursor of request i when datagram i
\* holds no entry).
C3_CursorContinuity ==
    \A i \in 1..Len(sent) :
        /\ <<sent[i].address, sent[i].port>> =
               LastPairOr(PairsOf(SubSeq(rcvd, 1, i - 1)), <<EMPTY_ADRESS, 0>>)
        /\ (i > 1 /\ WirePairs(Body(rcvd[i - 1])) = <<>>) =>
               /\ sent[i].address = sent[i - 1].address
               /\ sent[i].port = sent[i - 1].port

\* a third request after an empty second page repeats a non-empty cursor
C3_Witness ==
    /\ Len(sent) = 3
    /\ WirePairs(Body(rcvd[2])) = <<>>
    /\ sent[3].address # EMPTY_ADRESS
    /\ sent[3].port = 256

\* C4: a datagram whose first six bytes are not the header ends the session
\* with the header-mismatch error; nothing of it is delivered and no
\* further request is sent.
C4_HeaderMismatchAborts ==
    (rcvd # <<>> /\ Len(Last(rcvd)) >= 6 /\ SubSeq(Last(rcvd), 1, 6) # Header) =>
        /\ pc = "idle"
        /\ result = "mismatch"
        /\ sink = PairsOf(Earlier(rcvd))
        /\ Len(sent) = Len(rcvd)

\* the second datagram has a header that differs in its fifth byte only
C4_Witness ==
    /\ Len(rcvd) = 2
    /\ Len(rcvd[2]) >= 6
    /\ SubSeq(rcvd[2], 1, 4) = SubSeq(Header, 1, 4)
    /\ rcvd[2][5] # Header[5]
    /\ rcvd[2][6] = Header[6]
    /\ result = "mismatch"
    /\ sink # <<>>

\* C5: sends and receives alternate; never are two requests in flight,
\* also across successive queries on the same client.
C5_AtMostOneInFlight ==
    ~transport_failed => inflight <= 1

\* C6: for well-formed datagrams the sink holds exactly the entries before
\* the terminator (or the end) of each datagram, in receive and wire order,
\* with big-endian ports; a decode error never occurs, and the query returns
\* success unless the transport fails.
C6_SinkIsConcatenation ==
    (\A i \in 1..Len(rcvd) : WellFormed(rcvd[i])) =>
        /\ IsPrefix(sink, PairsOf(rcvd))
        /\ pc \notin {"decode", "deliver", "panicked"} => sink = PairsOf(rcvd)
        /\ result \notin {"mismatch", "eof"}
        /\ (pc = "idle" /\ nsessions > 0 /\ result # "transport") =>
               /\ result = "ok"
               /\ HasTerminator(Body(Last(rcvd)))

\* header + 01 02 03 04 00 1A + terminator: (1.2.3.4, 26), success
C6_Witness ==
    /\ rcvd = <<Header \o <<1, 2, 3, 4, 0, 26>> \o <<0, 0, 0, 0, 0, 0>>>>
    /\ sink = <<<<[a |-> 1, b |-> 2, c |-> 3, d |-> 4], 26>>>>
    /\ pc = "idle"
    /\ result = "ok"

\* a repeated entry is delivered twice, behind the entries of the page before
C6_WitnessDuplicates ==
    /\ Len(rcvd) = 2
    /\ Len(sink) = 4
    /\ sink[3] = sink[4]
    /\ sink[1] # sink[2]
    /\ result = "ok"

\* C7: the first failed send or receive of a client ends the query with
\* that error: the sink and the requests sent stay as they were, and
\* nothing is sent or delivered until the caller starts a new query.
C7_TransportErrorAborts ==
    [][ /\ (~transport_failed /\ transport_failed') =>
              /\ pc' = "idle"
              /\ result' = "transport"
              /\ sink' = sink
              /\ sent' = sent
        /\ (result = "transport" /\ pc' # "first_send") =>
              /\ pc' = "idle"
              /\ sink' = sink
              /\ sent' = sent ]_vars

\* a receive failed after addresses had been delivered
C7_Witness ==
    /\ result = "transport"
    /\ pc = "idle"
    /\ sink # <<>>
    /\ Len(sent) = Len(rcvd) + 1

\* C8 (as stated): with fewer than six bytes left the entry loop stops
\* without error and the session goes on to the next page.
AtDecodeStep == pc = "decode" /\ pc' # "decode"

C8_ShortRemainderStopsQuietly ==
    [][ (AtDecodeStep /\ Len(buf) - pos < 6) =>
            (pc' = "sleep" /\ result' = result) ]_vars

\* C8 (amended): with no byte left the loop stops without error and the
\* session goes on to the next page; with 1 to 5 bytes left the session
\* fails with the end-of-input error, unless at least four are left and
\* the first four are zero, which is the terminator.
C8_RemainderDecides ==
    [][ AtDecodeStep =>
          LET rem == Len(buf) - pos IN
            /\ rem = 0 =>
                 pc' = "sleep" /\ result' = result /\ end_of_list' = end_of_list
            /\ (rem \in 1..5) =>
                 IF rem >= 4 /\ SubSeq(buf, pos + 1, pos + 4) = <<0, 0, 0, 0>>
                 THEN pc' = "sleep" /\ result' = result /\ end_of_list'
                 ELSE pc' = "idle" /\ result' = "eof" /\ sink' = sink
                      /\ sent' = sent ]_vars

\* five bytes were left behind a delivered entry: end-of-input error
C8_Witness ==
    /\ result = "eof"
    /\ sink # <<>>
    /\ rcvd # <<>>
    /\ ValidHeader(Last(rcvd))
    /\ (Len(Last(rcvd)) - 6) % 6 = 5

\* C9: a datagram longer than the receive buffer fails the session: nothing
\* of it is decoded or delivered and the query does not succeed.
C9_OversizeFails ==
    (rcvd # <<>> /\ Len(Last(rcvd)) > BufSize) =>
        /\ result # "ok"
        /\ ~end_of_list
        /\ sink = PairsOf(Earlier(rcvd))

\* C10: when the consumer of the sink is gone at a delivery the query
\* returns a recoverable error; it does not terminate abnormally.
C10_SinkClosedIsRecoverable ==
    pc # "panicked"

\* C11: a healthy environment: the transport never fails, the consumer keeps
\* its receiver and takes every pair, every datagram is well-formed, and
\* the directory sends the terminator at the latest in page MaxPages.
RecvWellFormed ==
    \E d \in WellFormedDatagrams :
        /\ Len(rcvd) + 1 < MaxPages \/ HasTerminator(Body(d))
        /\ RecvOk(d)

LiveNext ==
    \/ \E q \in QueryArgs : QueryRaw(q.region, q.filter)
    \/ SendFirstOk
    \/ RecvWellFormed
    \/ Decode
    \/ DeliverOk
    \/ Sleep
    \/ SendNextOk

\* sock.send and sock.recv complete, the channel takes the pair, the timer
\* fires, and the task is polled again after each of them
LiveSpec ==
    /\ Init
    /\ [][LiveNext]_vars
    /\ WF_vars(SendFirstOk)
    /\ WF_vars(RecvWellFormed)
    /\ WF_vars(Decode)
    /\ WF_vars(DeliverOk)
    /\ WF_vars(Sleep)
    /\ WF_vars(SendNextOk)

\* C11: in a healthy environment every query eventually returns success,
\* and until then every datagram without the terminator is followed by the
\* next request.
C11_EventuallySuccess ==
    /\ (pc = "first_send") ~> (pc = "idle" /\ result = "ok")
    /\ (pc = "sleep" /\ ~end_of_list) ~>
           (pc = "recv" /\ Len(sent) = Len(rcvd) + 1)

\* success after a second request cycle
C11_Witness ==
    /\ pc = "idle"
    /\ result = "ok"
    /\ Len(rcvd) = 2
    /\ ~HasTerminator(Body(rcvd[1]))
    /\ sink # <<>>

\* --------------------------------------------------------- region.rs
Regions ==
    {"USEast", "USWest", "SouthAmerica", "Europe", "Asia", "Australia",
     "MiddleEast", "Africa", "All"}

Bytes == 0..255

\* Region::as_u8
as_u8(r) ==
    CASE r = "USEast" -> 0
      [] r = "USWest" -> 1
      [] r = "SouthAmerica" -> 2
      [] r = "Europe" -> 3
      [] r = "Asia" -> 4
      [] r = "Australia" -> 5
      [] r = "MiddleEast" -> 6
      [] r = "Africa" -> 7
      [] r = "All" -> 255

\* Region::from_u8: Ok(region) or Err("Invalid code")
RegionOk(r) == [ok |-> TRUE, val |-> r]
RegionErr == [ok |-> FALSE, val |-> "Invalid code"]

from_u8_AllIsEight(code) ==
    CASE code = 0 -> RegionOk("USEast")
      [] code = 1 -> RegionOk("USWest")
      [] code = 2 -> RegionOk("SouthAmerica")
      [] code = 3 -> RegionOk("Europe")
      [] code = 4 -> RegionOk("Asia")
      [] code = 5 -> RegionOk("Australia")
      [] code = 6 -> RegionOk("MiddleEast")
      [] code = 7 -> RegionOk("Africa")
      [] code = 8 -> RegionOk("All")
      [] OTHER -> RegionErr

from_u8(code) ==
    CASE code = 0 -> RegionOk("USEast")
      [] code = 1 -> RegionOk("USWest")
      [] code = 2 -> RegionOk("SouthAmerica")
      [] code = 3 -> RegionOk("Europe")
      [] code = 4 -> RegionOk("Asia")
      [] code = 5 -> RegionOk("Australia")
      [] code = 6 -> RegionOk("MiddleEast")
      [] code = 7 -> RegionOk("Africa")
      [] code = 255 -> RegionOk("All")
      [] OTHER -> RegionErr

\* The two functions evaluated on every byte and every region, and each on
\* the other's result: ret holds the results in the order of the calls.
RegionInit ==
    /\ ClientInit
    /\ \/ fn = "from_u8" /\ arg \in Bytes
       \/ fn = "as_u8" /\ arg \in Regions
    /\ ret = <<>>

CallFromU8 ==
    /\ \/ fn = "from_u8" /\ ret = <<>> /\ ret' = <<from_u8(arg)>>
       \/ fn = "as_u8" /\ Len(ret) = 1 /\ ret' = Append(ret, from_u8(ret[1]))
    /\ UNCHANGED <<pc, result, args, frame, sent, rcvd, inflight,
                   transport_failed, channel, nsessions, fn, arg>>

CallAsU8 ==
    /\ \/ fn = "as_u8" /\ ret = <<>> /\ ret' = <<as_u8(arg)>>
       \/ fn = "from_u8" /\ Len(ret) = 1 /\ ret[1].ok
            /\ ret' = Append(ret, as_u8(ret[1].val))
    /\ UNCHANGED <<pc, result, args, frame, sent, rcvd, inflight,
                   transport_failed, channel, nsessions, fn, arg>>

RegionNext == CallFromU8 \/ CallAsU8

RegionSpec == RegionInit /\ [][RegionNext]_vars

\* the nine bytes of the table in the documentation of Region
RecognizedCodes == (0..7) \cup {255}

\* C12: as_u8(from_u8(b)) = b for the nine recognized bytes, from_u8 fails
\* with the invalid-code error for every other byte, and
\* from_u8(as_u8(r)) = r for the nine regions.
C12_RegionBijection ==
    /\ (fn = "from_u8" /\ Len(ret) >= 1) =>
           /\ ret[1].ok <=> arg \in RecognizedCodes
           /\ ret[1].ok => ret[1].val \in Regions
           /\ ~ret[1].ok => ret[1] = RegionErr
    /\ (fn = "from_u8" /\ Len(ret) = 2) => ret[2] = arg
    /\ (fn = "as_u8" /\ Len(ret) >= 1) => ret[1] \in RecognizedCodes
    /\ (fn = "as_u8" /\ Len(ret) = 2) => ret[2] = RegionOk(arg)

\* 0xFF went to All and back
C12_Witness ==
    /\ fn = "from_u8"
    /\ arg = 255
    /\ ret = <<RegionOk("All"), 255>>

\* byte 8 was refused
C12_WitnessInvalid ==
    /\ fn = "from_u8"
    /\ arg = 8
    /\ ret = <<RegionErr>>

\* texts: NUL, 'a', U+00E9, U+4E2D, U+1F600
Chars == {0, 97, 233, 20013, 128512}

RECURSIVE TextsUpTo(_)
TextsUpTo(n) ==
    IF n = 0 THEN {<<>>}
    ELSE LET S == TextsUpTo(n - 1) IN S \cup {Append(s, c) : s \in S, c \in Chars}

Texts == TextsUpTo(MaxText)

\* a new cursor, a cursor behind two written bytes, a cursor set back
\* into written bytes
Cursors ==
    {NewCursor(<<>>, 0), NewCursor(<<49, 3>>, 2), NewCursor(<<9, 9, 9>>, 1)}

CStringInit ==
    /\ ClientInit
    /\ fn = "write_cstring"
    /\ arg \in [cursor : Cursors, src : Texts]
    /\ ret = <<>>

CallWriteCString ==
    /\ fn = "write_cstring"
    /\ ret = <<>>
    /\ ret' = <<write_cstring(arg.cursor, arg.src)>>
    /\ UNCHANGED <<pc, result, args, frame, sent, rcvd, inflight,
                   transport_failed, channel, nsessions, fn, arg>>

CStringNext == CallWriteCString

CStringSpec == CStringInit /\ [][CStringNext]_vars

\* UTF-8 read back: the code points of a byte string
RECURSIVE Utf8Decode(_)
Utf8Decode(bs) ==
    IF bs = <<>> THEN <<>>
    ELSE LET b == bs[1]
             n == IF b < 128 THEN 1
                  ELSE IF b < 224 THEN 2
                  ELSE IF b < 240 THEN 3 ELSE 4
             lead == IF b < 128 THEN b
                     ELSE IF b < 224 THEN b - 192
                     ELSE IF b < 240 THEN b - 224 ELSE b - 240
             Cont(i) == IF i <= Len(bs) THEN bs[i] - 128 ELSE 0
             cp == IF n = 1 THEN lead
                   ELSE IF n = 2 THEN lead * 64 + Cont(2)
                   ELSE IF n = 3 THEN lead * 4096 + Cont(2) * 64 + Cont(3)
                   ELSE lead * 262144 + Cont(2) * 4096 + Cont(3) * 64 + Cont(4)
         IN  <<cp>> \o Utf8Decode(SubSeq(bs, n + 1, Len(bs)))

\* the bytes of bs before its first zero byte (all of bs if it has none)
RECURSIVE UpToZero(_)
UpToZero(bs) ==
    IF bs = <<>> \/ bs[1] = 0 THEN <<>>
    ELSE <<bs[1]>> \o UpToZero(Tail(bs))

\* C13: for a text without a zero code point write_cstring writes, from the
\* cursor position on, the text's bytes and then one zero byte, which is
\* the last byte written; the bytes up to the first zero read back as the
\* text; at the end of the vector this appends and nothing before changes.
C13_CStringRoundTrip ==
    (fn = "write_cstring" /\ Len(ret) = 1 /\ \A i \in 1..Len(arg.src) : arg.src[i] # 0) =>
        LET cur == arg.cursor
            out == ret[1]
            written == SubSeq(out.vec, cur.pos + 1, out.pos)
        IN  /\ out.pos > cur.pos
            /\ out.pos <= Len(out.vec)
            /\ Last(written) = 0
            /\ Len(UpToZero(written)) = Len(written) - 1
            /\ Utf8Decode(UpToZero(written)) = arg.src
            /\ SubSeq(out.vec, 1, cur.pos) = SubSeq(cur.vec, 1, cur.pos)
            /\ cur.pos = Len(cur.vec) => out.vec = cur.vec \o written

\* U+00E9 and U+4E2D written behind two bytes: C3 A9 E4 B8 AD 00
C13_Witness ==
    /\ fn = "write_cstring"
    /\ arg = [cursor |-> NewCursor(<<49, 3>>, 2), src |-> <<233, 20013>>]
    /\ ret = <<NewCursor(<<49, 3, 195, 169, 228, 184, 173, 0>>, 8)>>

\* C14: the delay is taken exactly when the datagram just decoded did not
\* reach the end of the list: the client is never at the delay with
\* end_of_list set, and it is at the delay whenever a decoded datagram
\* leaves end_of_list unset.
C14_DelayOnlyBeforeContinuation ==
    /\ pc = "sleep" => ~end_of_list
    /\ (pc = "send") => (~end_of_list /\ Len(sent) = Len(rcvd))

\* C15: once the terminator address is decoded the rest of the datagram has
\* no effect: decoding stops right behind the four address bytes, the sink
\* holds the entries before the terminator and nothing else, and the
\* cursor and every request sent afterwards carry the last entry before it.
C15_NothingAfterTerminator ==
    end_of_list =>
        LET before == PairsOf(rcvd)
            cursor == LastPairOr(before, <<EMPTY_ADRESS, 0>>)
        IN  /\ pc \in {"sleep", "send", "idle"}
            /\ pos = Len(Header) + 6 * Len(WirePairs(Body(Last(rcvd)))) + 4
            /\ sink = before
            /\ <<last_address, last_port>> = cursor
            /\ Len(sent) > Len(rcvd) =>
                   <<Last(sent).address, Last(sent).port>> = cursor

\* terminator with port 00 1A and the entry 1.2.3.4:26 behind it, as the
\* first datagram: nothing delivered, the request after it has cursor 0.0.0.0:0
C15_Witness ==
    /\ end_of_list
    /\ rcvd = <<Header \o <<0, 0, 0, 0, 0, 26>> \o E1>>
    /\ sink = <<>>
    /\ Len(sent) = 2
    /\ sent[2].address = EMPTY_ADRESS
    /\ sent[2].port = 0

\* C16: at most one entry is decoded and not yet accepted by the sink: while
\* the client waits at sender.send exactly the entry it offers is
\* outstanding, it decodes the next entry only when none is, and when
\* request N + 1 is sent every entry of pages 1..N is in the sink.
DecodedSoFar == Len(PairsOf(Earlier(rcvd))) + (pos - Len(Header)) \div 6

C16_NoBufferedEntries ==
    /\ pc = "deliver" =>
           /\ DecodedSoFar = Len(sink) + 1
           /\ DecodedSoFar <= Len(PairsOf(rcvd))
           /\ <<address, port>> = PairsOf(rcvd)[DecodedSoFar]
    /\ pc = "decode" => DecodedSoFar = Len(sink)
    /\ Len(sent) > Len(rcvd) => sink = PairsOf(rcvd)

\* the second entry of the second page is offered to the sink, the three
\* entries before it are in the sink
C16_Witness ==
    /\ pc = "deliver"
    /\ Len(rcvd) = 2
    /\ Len(sink) = 3
    /\ Len(sent) = 2
    /\ pos = 18

\* ---------------------------------------- packet_ext.rs: read_u8_veccheck
\* read_u8_veccheck evaluated on its own: the header against datagram
\* prefixes, and a two-byte sequence against every short buffer over three
\* byte values from two cursor positions
RECURSIVE BufsUpTo(_)
BufsUpTo(n) ==
    IF n = 0 THEN {<<>>}
    ELSE LET S == BufsUpTo(n - 1) IN S \cup {Append(s, x) : s \in S, x \in {1, 2, 9}}

VecCheckArgs ==
    {[buf |-> d, pos |-> 0, cmp |-> Header] :
        d \in BadHeaderDatagrams \cup BadHeaders \cup ShortDatagrams
              \cup {Header, Header \o E1}}
    \cup [buf : BufsUpTo(MaxBuf), pos : {0, 1}, cmp : {<<1, 2>>}]

VecCheckInit ==
    /\ ClientInit
    /\ fn = "read_u8_veccheck"
    /\ arg \in {x \in VecCheckArgs : x.pos <= Len(x.buf)}
    /\ ret = <<>>

CallVecCheck ==
    /\ fn = "read_u8_veccheck"
    /\ ret = <<>>
    /\ ret' = <<read_u8_veccheck(arg.buf, arg.pos, arg.cmp)>>
    /\ UNCHANGED <<pc, result, args, frame, sent, rcvd, inflight,
                   transport_failed, channel, nsessions, fn, arg>>

VecCheckNext == CallVecCheck

VecCheckSpec == VecCheckInit /\ [][VecCheckNext]_vars

Holds(x) == Len(x.buf) - x.pos >= Len(x.cmp)

\* index of the first byte of the buffer (from its position) that differs
\* from cmp; Len(cmp) + 1 if none does
FirstDiff(x) ==
    LET D == {i \in 1..Len(x.cmp) : x.buf[x.pos + i] # x.cmp[i]}
    IN  IF D = {} THEN Len(x.cmp) + 1
        ELSE CHOOSE i \in D : \A j \in D : i <= j

\* C17 (as stated): for a buffer holding at least len(expected) bytes the
\* position after the call is len(expected) further, match or not.
C17_ConsumesAllEitherWay ==
    (fn = "read_u8_veccheck" /\ Len(ret) = 1 /\ Holds(arg)) =>
        ret[1].pos = arg.pos + Len(arg.cmp)

\* C17 (amended): for such a buffer the call reads up to and including the
\* first differing byte: it returns true and has advanced by len(expected)
\* when no byte differs, and returns false and has advanced by i when the
\* first differing byte is the i-th.
C17_ConsumesUpToFirstDifference ==
    (fn = "read_u8_veccheck" /\ Len(ret) = 1 /\ Holds(arg)) =>
        LET i == FirstDiff(arg) IN
          /\ ret[1].res = (IF i > Len(arg.cmp) THEN "true" ELSE "false")
          /\ ret[1].pos = arg.pos + Min(i, Len(arg.cmp))

\* a datagram whose first byte is not FF: false after one byte
C17_Witness ==
    /\ fn = "read_u8_veccheck"
    /\ arg.cmp = Header
    /\ Len(arg.buf) >= 6
    /\ arg.buf[1] # 255
    /\ ret = <<[res |-> "false", pos |-> 1]>>

\* C18: reading a request packet back.  The text of a cursor field: its
\* separators and its five decimal numbers.
IsDigit(c) == c \in 48..57

RECURSIVE Separators(_)
Separators(t) ==
    IF t = <<>> THEN <<>>
    ELSE (IF IsDigit(t[1]) THEN <<>> ELSE <<t[1]>>) \o Separators(Tail(t))

\* the numbers between the separators, in order; an empty field reads as -1
RECURSIVE Numbers(_, _)
Numbers(t, acc) ==
    IF t = <<>> THEN <<acc>>
    ELSE IF IsDigit(t[1])
         THEN Numbers(Tail(t), (IF acc < 0 THEN 0 ELSE acc * 10) + (t[1] - 48))
         ELSE <<acc>> \o Numbers(Tail(t), -1)

ReadCursorText(t) ==
    LET n == Numbers(t, -1) IN
    IF Separators(t) = <<46, 46, 46, 58>>
    THEN <<[a |-> n[1], b |-> n[2], c |-> n[3], d |-> n[4]], n[5]>>
    ELSE <<>>

\* C18: every request is 0x31, the region byte, the cursor as
\* "a.b.c.d:port" with a zero byte, the filter with a zero byte, and nothing
\* else; region and filter are the arguments of query_raw in every request
\* of the session, the cursor is the one the session has reached, and the
\* first request holds "0.0.0.0:0".
C18_RequestLayout ==
    \A i \in 1..Len(sent) :
        LET bs == sent[i].bytes
            rest == SubSeq(bs, 3, Len(bs))
            cursorText == UpToZero(rest)
            tail == SubSeq(rest, Len(cursorText) + 2, Len(rest))
            filterBytes == UpToZero(tail)
        IN  /\ Len(bs) >= 4
            /\ bs[1] = 49
            /\ bs[2] = region_code
            /\ Len(rest) > Len(cursorText)
            /\ ReadCursorText(cursorText) =
                   LastPairOr(PairsOf(SubSeq(rcvd, 1, i - 1)), <<EMPTY_ADRESS, 0>>)
            /\ Len(tail) = Len(filterBytes) + 1
            /\ Last(tail) = 0
            /\ Utf8Decode(filterBytes) = filter_str
            /\ i = 1 => cursorText = <<48, 46, 48, 46, 48, 46, 48, 58, 48>>

\* region 0x03, filter "\a": 31 03 "0.0.0.1:256" 00 "\a" 00 as second request
C18_Witness ==
    /\ Len(sent) >= 2
    /\ sent[2].bytes =
           <<49, 3, 48, 46, 48, 46, 48, 46, 49, 58, 50, 53, 54, 0, 92, 97, 0>>
    /\ sent[1].bytes = <<49, 3, 48, 46, 48, 46, 48, 46, 48, 58, 48, 0, 92, 97, 0>>

\* C19: query_raw returns success only after a datagram with a valid header
\* and the terminator address: its last datagram is one, no datagram before
\* it is, and while no such datagram has arrived a query that has not
\* failed is still running.
EndsList(d) == ValidHeader(d) /\ HasTerminator(Body(d))

C19_SuccessOnlyAfterTerminator ==
    /\ result = "ok" =>
           /\ rcvd # <<>>
           /\ EndsList(Last(rcvd))
           /\ \A i \in 1..(Len(rcvd) - 1) : ~EndsList(rcvd[i])
    /\ (nsessions > 0 /\ \A i \in 1..Len(rcvd) : ~EndsList(rcvd[i])) =>
           /\ result # "ok"
           /\ ~end_of_list
           /\ pc = "idle" => result \in {"transport", "mismatch", "eof"}

\* as many pages as the model receives, none with a terminator: the query
\* is back at sock.recv, not returned
C19_Witness ==
    /\ Len(rcvd) = MaxPages
    /\ \A i \in 1..Len(rcvd) : ~EndsList(rcvd[i])
    /\ pc = "recv"
    /\ result = "none"
    /\ Len(sent) = MaxPages + 1

\* C20: a datagram of fewer than six bytes ends the session with an error:
\* end-of-input when its bytes are the beginning of the header, the header
\* mismatch otherwise; nothing of it is delivered and no request follows.
C20_ShortDatagramAborts ==
    (rcvd # <<>> /\ Len(Last(rcvd)) < 6) =>
        /\ pc = "idle"
        /\ result = (IF IsPrefix(Last(rcvd), Header) THEN "eof" ELSE "mismatch")
        /\ sink = PairsOf(Earlier(rcvd))
        /\ Len(sent) = Len(rcvd)
        /\ ~end_of_list

\* an empty datagram as the second one, after a page with entries
C20_Witness ==
    /\ Len(rcvd) = 2
    /\ rcvd[2] = <<>>
    /\ result = "eof"
    /\ sink # <<>>
    /\ Len(sent) = 2

\* a two-byte datagram that is not the beginning of the header
C20_WitnessMismatch ==
    /\ rcvd = <<<<255, 0>>>>
    /\ result = "mismatch"

====
